---- MODULE Spec2Model ----
(***************************************************************************)
(* A state-machine model of the RoboArm Nexus controller: the React App    *)
(* component (state, refs, effects, the 30 Hz control tick, the tracking   *)
(* loop, the manual fallback), the vision service, the coordinate mapper   *)
(* and the configuration panel.                                            *)
(*                                                                         *)
(* Numbers.  JavaScript numbers are modelled on fixed-point grids:         *)
(*   - normalized samples and landmark coordinates in thousandths (Milli), *)
(*   - canvas/workspace coordinates and velocities in hundredths (Scale).  *)
(* Every value the model feeds in lies on these grids, sums and the        *)
(* products with the canvas sizes are exact on them, and a comparison of   *)
(* Math.hypot(dx, dy) with a threshold is decided on the exact squares.    *)
(***************************************************************************)
EXTENDS Integers, Sequences, FiniteSets, TLC

\* ------------------------------------------------------------ constants

CANVAS_WIDTH == 600
CANVAS_HEIGHT == 400
BASE_X == 300
BASE_Y == 350

\* Fixed-point resolutions (see the header): grid points per canvas unit and
\* per unit of a normalized coordinate.
Scale == 100
Milli == 1000

\* HandGesture, Tab
NONE == "NONE"
OPEN_PALM == "OPEN_PALM"
PINCH == "PINCH"
CLOSED_FIST == "CLOSED_FIST"
HandGesture == {NONE, OPEN_PALM, PINCH, CLOSED_FIST}

SIMULATION == "SIMULATION"
CODE_GEN == "CODE_GEN"
Tab == {SIMULATION, CODE_GEN}

DEFAULT_ARM_CONFIG == [segment1Length |-> 150, segment2Length |-> 120, baseRotation |-> 0]

INITIAL_BALLS ==
  << [id |-> 1, x |-> (BASE_X - 100) * Scale, y |-> (BASE_Y - 20) * Scale, color |-> "#ef4444",
      radius |-> 15, isGripped |-> FALSE, vx |-> 0, vy |-> 0],
     [id |-> 2, x |-> (BASE_X + 120) * Scale, y |-> (BASE_Y - 20) * Scale, color |-> "#3b82f6",
      radius |-> 15, isGripped |-> FALSE, vx |-> 0, vy |-> 0],
     [id |-> 3, x |-> (BASE_X - 150) * Scale, y |-> (BASE_Y - 20) * Scale, color |-> "#10b981",
      radius |-> 15, isGripped |-> FALSE, vx |-> 0, vy |-> 0],
     [id |-> 4, x |-> (BASE_X + 80) * Scale, y |-> (BASE_Y - 80) * Scale, color |-> "#f59e0b",
      radius |-> 15, isGripped |-> FALSE, vx |-> 0, vy |-> 0] >>

\* ------------------------------------------------------------ arithmetic

Min(a, b) == IF a < b THEN a ELSE b
Max(a, b) == IF a > b THEN a ELSE b
Abs(a) == IF a < 0 THEN -a ELSE a

\* a * num / den rounded to the nearest grid point (ties away from zero).
MulRound(a, num, den) ==
  LET p == a * num
  IN  IF p >= 0 THEN (2 * p + den) \div (2 * den) ELSE -((2 * (-p) + den) \div (2 * den))

\* Math.hypot(dx, dy) < r, for dx, dy and r on the same grid; the first two
\* conjuncts keep the squares small and are implied by the third.
HypotLess(dx, dy, r) ==
  /\ Abs(dx) < r
  /\ Abs(dy) < r
  /\ dx * dx + dy * dy < r * r

\* ------------------------------------------------------------ inputs

\* Pointer samples the operator produces (normalized, in 1/Milli): over ball 1,
\* high above the floor, and below the floor line.
Samples ==
  { [x |-> 333, y |-> 825], [x |-> 500, y |-> 250], [x |-> 333, y |-> 1000] }

\* A sample the hand tracker can produce and the mouse handler cannot: the
\* knuckle outside the camera image.
OutOfFrame == [x |-> Milli + 100, y |-> -50]

\* Finger-fold patterns of a detected hand (the folded fingertips).
Folds == { {}, {8, 12}, {12, 16, 20}, {8, 12, 16, 20} }

\* A 21-point landmark snapshot (landmark i is element i + 1): knuckle 5 at p,
\* the wrist below it, a folded fingertip 100/Milli from the wrist and an
\* extended one above the knuckle, the thumb tip pinchDist right of the index tip.
Hand(p, folded, pinchDist) ==
  LET wrist == [x |-> p.x, y |-> p.y + 300]
      tip(i) == IF i \in folded THEN [x |-> wrist.x + 100, y |-> wrist.y]
                ELSE [x |-> p.x + (i - 8) * 5, y |-> p.y - 300]
  IN  [i \in 1..21 |->
         CASE i - 1 = 0 -> wrist
           [] i - 1 = 4 -> [x |-> tip(8).x + pinchDist, y |-> tip(8).y]
           [] i - 1 \in {8, 12, 16, 20} -> tip(i - 1)
           [] OTHER -> p]

\* What detectHands reports for a frame: no hand (an empty landmarks list) or
\* one hand's landmarks.
NoHand == << >>
Poses == { [folded |-> {}, pinchDist |-> 120], [folded |-> {}, pinchDist |-> 30],
           [folded |-> {8, 12, 16, 20}, pinchDist |-> 30] }
Hands ==
  { Hand([x |-> Milli - s.x, y |-> s.y], q.folded, q.pinchDist) :
      s \in Samples \cup {OutOfFrame}, q \in Poses }
  \cup { Hand([x |-> Milli \div 2, y |-> Milli \div 2], f, d) : f \in Folds, d \in {30, 120} }
Detections == {NoHand} \cup Hands

\* Text an operator can leave in a numeric field of the control panel.
MaxLen == 2
Chars == {"-", "0", "5", "x"}
Texts == UNION { [1..n -> Chars] : n \in 0..MaxLen }

\* ------------------------------------------------------------ pure functions

\* services/visionService.ts analyzeGesture
PINCH_DIST == 50
FOLD_DIST == 250
foldedCount(landmarks) ==
  Cardinality({ idx \in {8, 12, 16, 20} :
    HypotLess(landmarks[idx + 1].x - landmarks[1].x,
              landmarks[idx + 1].y - landmarks[1].y, (FOLD_DIST * Milli) \div 1000) })

\* A variant that tests the pinch before the fist.
analyzeGesture_PinchFirst(landmarks) ==
  IF Len(landmarks) = 0 THEN NONE
  ELSE IF HypotLess(landmarks[5].x - landmarks[9].x, landmarks[5].y - landmarks[9].y,
                    (PINCH_DIST * Milli) \div 1000)
       THEN PINCH
  ELSE IF foldedCount(landmarks) >= 3 THEN CLOSED_FIST
  ELSE OPEN_PALM

analyzeGesture(landmarks) ==
  IF Len(landmarks) = 0 THEN NONE
  ELSE IF foldedCount(landmarks) >= 3 THEN CLOSED_FIST
  ELSE IF HypotLess(landmarks[5].x - landmarks[9].x, landmarks[5].y - landmarks[9].y,
                    (PINCH_DIST * Milli) \div 1000)
       THEN PINCH
  ELSE OPEN_PALM

\* services/kinematics.ts mapInputToCoordinates
Clamp01_Identity(v) == v

Clamp01(v) == Max(0, Min(Milli, v))

mapInputToCoordinates_ScreenY(normX, normY, cfg) ==
  LET clampedX == Clamp01(normX)
      clampedY == Clamp01(normY)
      screenX == MulRound(clampedX, CANVAS_WIDTH * Scale, Milli)
      screenY == MulRound(clampedY, CANVAS_HEIGHT * Scale, Milli)
  IN  [x |-> screenX - BASE_X * Scale, y |-> screenY - BASE_Y * Scale, z |-> 0]

mapInputToCoordinates(normX, normY, cfg) ==
  LET clampedX == Clamp01(normX)
      clampedY == Clamp01(normY)
      screenX == MulRound(clampedX, CANVAS_WIDTH * Scale, Milli)
      screenY == MulRound(clampedY, CANVAS_HEIGHT * Scale, Milli)
  IN  [x |-> screenX - BASE_X * Scale, y |-> BASE_Y * Scale - screenY, z |-> 0]

\* parseFloat on a text of the field: an optional sign, then the longest run of
\* digits; NaN when there is no digit.  The result is [nan, v].
IsDigit(c) == c \in {"0", "5"}
DigitVal(c) == IF c = "5" THEN 5 ELSE 0
RECURSIVE DigitRun(_, _, _)
DigitRun(s, i, acc) ==
  IF i > Len(s) \/ ~IsDigit(s[i]) THEN acc
  ELSE DigitRun(s, i + 1, acc * 10 + DigitVal(s[i]))
parseFloat(s) ==
  LET neg == Len(s) > 0 /\ s[1] = "-"
      first == IF neg THEN 2 ELSE 1
  IN  IF first > Len(s) \/ ~IsDigit(s[first]) THEN [nan |-> TRUE, v |-> 0]
      ELSE [nan |-> FALSE, v |-> IF neg THEN -DigitRun(s, first, 0) ELSE DigitRun(s, first, 0)]

\* components/ControlPanel.tsx handleChange: parseFloat(val) || 0
FieldValue(val) ==
  LET r == parseFloat(val) IN IF r.nan \/ r.v = 0 THEN 0 ELSE r.v

\* ------------------------------------------------------------ trigonometry

\* Angles are computed in hundredths of a degree, cosines in 1/Scale^2.
\* TAN[d + 1] is tan(d degrees) in ten-thousandths, d = 0..45.
TAN ==
  << 0, 175, 349, 524, 699, 875, 1051, 1228, 1405, 1584, 1763, 1944, 2126, 2309, 2493,
     2679, 2867, 3057, 3249, 3443, 3640, 3839, 4040, 4245, 4452, 4663, 4877, 5095, 5317,
     5543, 5774, 6009, 6249, 6494, 6745, 7002, 7265, 7536, 7813, 8098, 8391, 8693, 9004,
     9325, 9657, 10000 >>

\* Math.sqrt on the grid: the largest r with r * r <= n.
RECURSIVE SqrtSearch(_, _, _)
SqrtSearch(n, lo, hi) ==
  IF lo >= hi THEN lo
  ELSE LET mid == (lo + hi + 1) \div 2
       IN  IF mid * mid <= n THEN SqrtSearch(n, mid, hi) ELSE SqrtSearch(n, lo, mid - 1)
Isqrt(n) == SqrtSearch(n, 0, Min(n, 46340))

\* Math.sqrt(x * x + y * y); large arguments are halved to keep the squares small.
Hypot(x, y) ==
  IF Abs(x) <= 30000 /\ Abs(y) <= 30000 THEN Isqrt(x * x + y * y)
  ELSE 2 * Isqrt((x \div 2) * (x \div 2) + (y \div 2) * (y \div 2))

\* Math.hypot(x, y) > r, decided on the exact squares.
HypotGreater(x, y, r) ==
  IF r < 0 \/ Abs(x) > r \/ Abs(y) > r THEN TRUE ELSE x * x + y * y > r * r

\* atan(b / a) for 0 <= b <= a, 0 < a: the arguments are brought to 10000..20000,
\* the degree is looked up in TAN and the remainder interpolated.
RECURSIVE DegSearch(_, _, _, _)
DegSearch(b, a, lo, hi) ==
  IF lo >= hi THEN lo
  ELSE LET mid == (lo + hi + 1) \div 2
       IN  IF TAN[mid + 1] * a <= b * 10000 THEN DegSearch(b, a, mid, hi)
           ELSE DegSearch(b, a, lo, mid - 1)

AtanOctant(b, a) ==
  LET k == IF a > 20000 THEN a \div 20000 + 1 ELSE 1
      m == IF a < 10000 THEN 10000 \div a ELSE 1
      a1 == (a * m) \div k
      b1 == (b * m) \div k
      d == DegSearch(b1, a1, 0, 44)
  IN  100 * d + ((b1 * 10000 - TAN[d + 1] * a1) * 100) \div ((TAN[d + 2] - TAN[d + 1]) * a1)

\* Math.atan2(y, x).  A JavaScript zero has a sign, and a value too small for
\* the grid is not a zero: zy in {"+0", "-0", "+tiny", "-tiny"} and zx in
\* {"+0", "-0"} say what a 0 of the grid stands for.
Atan2_Unsigned(y, x, zy, zx) ==
  IF y = 0
  THEN IF x >= 0 THEN 0 ELSE 18000
  ELSE LET ay == Abs(y)
           ax == Abs(x)
           phi == IF ay <= ax THEN AtanOctant(ay, ax) ELSE 9000 - AtanOctant(ax, ay)
       IN  IF x >= 0 THEN phi ELSE 18000 - phi

Atan2(y, x, zy, zx) ==
  IF y = 0
  THEN IF x > 0 THEN 0
       ELSE IF x < 0 THEN (IF zy \in {"-0", "-tiny"} THEN -18000 ELSE 18000)
       ELSE IF zy = "+tiny" THEN 9000
       ELSE IF zy = "-tiny" THEN -9000
       ELSE IF zx = "+0" THEN 0
       ELSE IF zy = "+0" THEN 18000 ELSE -18000
  ELSE LET ay == Abs(y)
           ax == Abs(x)
           phi == IF ay <= ax THEN AtanOctant(ay, ax) ELSE 9000 - AtanOctant(ax, ay)
           q == IF x >= 0 THEN phi ELSE 18000 - phi
       IN  IF y > 0 THEN q ELSE -q

\* A JavaScript number that may be NaN.
Num(v) == [nan |-> FALSE, v |-> v]
NaN == [nan |-> TRUE, v |-> 0]

\* Math.floor((rad * 180) / Math.PI) of an angle given in hundredths of a degree.
FloorDeg(a) == Num(a \div 100)

\* The sign of the rounding error of rSquared - l1 * l1 - l2 * l2 for a target
\* that was rescaled to the reach.  Mathematically that value is 2 * l1 * l2
\* and cosAngle2 is 1; binary floating point delivers it exactly or one
\* rounding off, and which of the three depends on the digits of the target.
Roundings == {-1, 0, 1}
RoundingsOf(tgt, cfg) ==
  IF HypotGreater(tgt.x, tgt.y, (cfg.segment1Length + cfg.segment2Length) * Scale)
  THEN Roundings ELSE {0}

\* services/kinematics.ts calculateIK, in exact arithmetic up to the grid, for
\* the rounding rnd of a rescaled target: cosAngle2 one rounding below 1 gives
\* an elbow angle of about -0.000001 degrees, which is floored to -1.  NaN
\* arises from 0 * -Infinity (a target at the base, out of a negative reach)
\* and from 0 / 0 in cosAngle2; a nonzero numerator over a zero denominator is
\* an Infinity that the clamp brings to 1 or -1.  The direction of a rescaled
\* target is the target's (reversed by a negative ratio); its angle is taken
\* from the coordinates before they are rounded to the grid.
ElbowAngle_ElbowUp(s2, c2) == Atan2(s2, c2, "+0", "+0")

\* theta2 = -Math.acos(cosAngle2), from the cosine c2 and the sine
\* s2 = sqrt(1 - c2 * c2) of the unsigned angle.
ElbowAngle(s2, c2) == -Atan2(s2, c2, "+0", "+0")

calculateIK(tgt, cfg, rnd) ==
  LET x == tgt.x
      y == tgt.y
      z == tgt.z
      l1 == cfg.segment1Length
      l2 == cfg.segment2Length
      one == Scale * Scale
      baseAngle == Atan2(x, z, "+0", "+0")
      dist == Hypot(x, y)
      maxReach == l1 + l2
      tooFar == HypotGreater(x, y, maxReach * Scale)
      ratioNaN == tooFar /\ dist = 0
      rescaled == tooFar /\ dist > 0
      adjustX == IF rescaled THEN MulRound(x, maxReach * Scale, dist) ELSE x
      adjustY == IF rescaled THEN MulRound(y, maxReach * Scale, dist) ELSE y
      zeroX == IF tooFar /\ ((x < 0) # (maxReach < 0)) THEN "-0" ELSE "+0"
      zeroY == IF tooFar /\ ((y < 0) # (maxReach < 0)) THEN "-0" ELSE "+0"
      rSquared == IF rescaled THEN (maxReach * Scale) * (maxReach * Scale) ELSE x * x + y * y
      num == rSquared - (l1 * l1 + l2 * l2) * one
      err == IF rescaled /\ maxReach # 0 THEN rnd ELSE 0
      den == 2 * l1 * l2
      denNegZero == (l1 = 0 /\ l2 < 0) \/ (l2 = 0 /\ l1 < 0)
      cosNaN == ratioNaN \/ (den = 0 /\ num = 0 /\ err = 0)
      cosAngle2 == IF den = 0
                   THEN (IF (num > 0 \/ (num = 0 /\ err > 0)) # denNegZero THEN 2 * one
                         ELSE -2 * one)
                   ELSE IF den > 0 THEN MulRound(num, 1, den)
                   ELSE MulRound(-num, 1, -den)
      c2 == Max(-one, Min(one, cosAngle2))
      below == den # 0 /\ err # 0 /\ ((err < 0) # (den < 0))
      s2 == Isqrt(one * one - c2 * c2)
      theta2 == IF below THEN -1 ELSE ElbowAngle(s2, c2)
      k1 == l1 * one + l2 * c2
      k2 == -(l2 * s2)
      zeroK2 == IF l2 # 0 /\ (below \/ c2 = -one) THEN (IF l2 > 0 THEN "-tiny" ELSE "+tiny")
                ELSE IF l2 >= 0 THEN "-0" ELSE "+0"
      turn == IF rescaled /\ maxReach < 0 THEN -1 ELSE 1
      dirX == IF rescaled /\ maxReach # 0 THEN turn * x ELSE adjustX
      dirY == IF rescaled /\ maxReach # 0 THEN turn * y ELSE adjustY
      theta1 == Atan2(dirY, dirX, zeroY, zeroX) - Atan2(k2, k1, zeroK2, "+0")
  IN  [base |-> FloorDeg(baseAngle),
       shoulder |-> IF cosNaN THEN NaN ELSE FloorDeg(theta1),
       elbow |-> IF cosNaN THEN NaN ELSE FloorDeg(theta2),
       gripper |-> 0]

\* Math.sin and Math.cos of a whole number of degrees, in 1/10000: SIN[d + 1] is
\* sin(d degrees) for d in 0..90.
SIN ==
  << 0, 175, 349, 523, 698, 872, 1045, 1219, 1392, 1564,
     1736, 1908, 2079, 2250, 2419, 2588, 2756, 2924, 3090, 3256,
     3420, 3584, 3746, 3907, 4067, 4226, 4384, 4540, 4695, 4848,
     5000, 5150, 5299, 5446, 5592, 5736, 5878, 6018, 6157, 6293,
     6428, 6561, 6691, 6820, 6947, 7071, 7193, 7314, 7431, 7547,
     7660, 7771, 7880, 7986, 8090, 8192, 8290, 8387, 8480, 8572,
     8660, 8746, 8829, 8910, 8988, 9063, 9135, 9205, 9272, 9336,
     9397, 9455, 9511, 9563, 9613, 9659, 9703, 9744, 9781, 9816,
     9848, 9877, 9903, 9925, 9945, 9962, 9976, 9986, 9994, 9998,
     10000 >>
SinDeg(d) ==
  LET m == d % 360
  IN  IF m <= 90 THEN SIN[m + 1]
      ELSE IF m <= 180 THEN SIN[180 - m + 1]
      ELSE IF m <= 270 THEN -SIN[m - 180 + 1]
      ELSE -SIN[360 - m + 1]
CosDeg(d) == SinDeg(d + 90)

\* components/ArmSimulation.tsx, forward kinematics: the drawn end of the second
\* segment (gripperPos = p2) in canvas coordinates, from the shoulder and elbow
\* angles in whole degrees.
gripperPos(ang, cfg) ==
  LET a1 == ang.shoulder.v
      a2 == a1 + ang.elbow.v
      l1 == cfg.segment1Length
      l2 == cfg.segment2Length
  IN  [x |-> BASE_X * Scale + MulRound(l1 * CosDeg(a1) + l2 * CosDeg(a2), Scale, 10000),
       y |-> BASE_Y * Scale - MulRound(l1 * SinDeg(a1) + l2 * SinDeg(a2), Scale, 10000)]

\* ------------------------------------------------------------ bounds

\* Control ticks, camera-effect runs and queued readiness results explored.
MaxTicks == 3
MaxSessions == 3
MaxPending == 2

\* Chunks written to the serial sink explored.
MaxSent == 2

\* ------------------------------------------------------------ state

VARIABLES
  phase,          \* "init" (constructed), "mounted", "unmounted"
  activeTab,      \* useState: the tab last set
  isVisionReady,  \* useState: the readiness flag last set
  gesture,        \* useState: the gesture last published
  config,         \* useState: the ArmConfig last set
  view,           \* the activeTab and isVisionReady of the last render (what
                  \* the event handlers and the effects' closures see)
  target,         \* useState: Coordinates
  angles,         \* useState: JointAngles
  balls,          \* useState: Ball[]
  inputPosRef,    \* the published pointer sample
  gestureRef,     \* the gesture of the last render, synced by its effect
  configRef,      \* the config of the last render, synced by its effect
  requestRef,     \* the session whose frame callback id is stored (0: null)
  video,          \* videoRef.current: the mounted <video>, its srcObject
  newFrame,       \* video.currentTime !== lastVideoTimeRef.current
  handLandmarker, \* visionService: the model is loaded
  isLoading,      \* visionService: a load is in flight
  loads,          \* the model loads in flight (calls between isLoading = true and finally)
  readyQueue,     \* results of initializeVision not yet passed to setIsVisionReady
  sessions,       \* the runs of the camera effect, oldest first
  scheduled,      \* the sessions whose loop has a frame callback scheduled
  ticks,          \* control ticks so far
  lastSeen,       \* history: the classification of the last classified frame
  port,           \* serialInstance.port is not null
  writer,         \* serialInstance.writer is not null
  sent,           \* history: the chunks written to the serial sink, oldest first
  logged,         \* history: the serial errors written to the console, oldest first
  generatedCode,  \* useState: the stored generated code, NoCode for null
  isGenerating,   \* useState: the flag of a running code generation
  requests,       \* the code-generation requests in flight
  probe           \* a call of one of the pure functions, for the claims about them

vars ==
  << phase, activeTab, isVisionReady, gesture, config, view, target, angles, balls,
     inputPosRef, gestureRef, configRef, requestRef, video, newFrame, handLandmarker,
     isLoading, loads, readyQueue, sessions, scheduled, ticks, lastSeen, port, writer, sent, logged,
     generatedCode, isGenerating, requests, probe >>

appVars == << activeTab, isVisionReady, gesture, config, view >>
simVars == << target, angles, balls, ticks >>
refVars == << inputPosRef, gestureRef, configRef >>
visionVars == << handLandmarker, isLoading, loads, readyQueue >>
cameraVars == << requestRef, video, newFrame, sessions, scheduled, lastSeen >>
serialVars == << port, writer, sent, logged >>
codeVars == << generatedCode, isGenerating, requests >>
extVars == << serialVars, codeVars, probe >>

NoVideo == [mounted |-> FALSE, src |-> 0, hasData |-> FALSE]
NewVideo == [mounted |-> TRUE, src |-> 0, hasData |-> FALSE]

\* No call under examination.
\* useState<GeneratedCode | null>(null): the stored code is a sequence, empty
\* for null and of the one stored value otherwise.
NoCode == << >>

NoCall == [fn |-> "none", args |-> << >>, state |-> "none", result |-> << >>]

\* The state after the modules are loaded and the App is constructed.
Constructed ==
  /\ phase = "init"
  /\ activeTab = SIMULATION
  /\ isVisionReady = FALSE
  /\ gesture = OPEN_PALM
  /\ config = DEFAULT_ARM_CONFIG
  /\ view = [activeTab |-> SIMULATION, isVisionReady |-> FALSE]
  /\ target = [x |-> 100 * Scale, y |-> 100 * Scale, z |-> 0]
  /\ angles = [base |-> Num(0), shoulder |-> Num(90), elbow |-> Num(-90), gripper |-> 0]
  /\ balls = INITIAL_BALLS
  /\ inputPosRef = [x |-> Milli \div 2, y |-> Milli \div 2]
  /\ gestureRef = OPEN_PALM
  /\ configRef = DEFAULT_ARM_CONFIG
  /\ requestRef = 0
  /\ video = NoVideo
  /\ newFrame = TRUE
  /\ handLandmarker = FALSE
  /\ isLoading = FALSE
  /\ loads = 0
  /\ readyQueue = << >>
  /\ sessions = << >>
  /\ scheduled = {}
  /\ ticks = 0
  /\ lastSeen = "nothing"
  /\ port = FALSE
  /\ writer = FALSE
  /\ sent = << >>
  /\ logged = << >>
  /\ generatedCode = NoCode
  /\ isGenerating = FALSE
  /\ requests = 0

Init == Constructed /\ probe = NoCall

\* ------------------------------------------------------------ control tick

\* App updatePhysics, the per-ball update of setBalls.
gripThreshold == 30
HANG == 15

\* Variants of the interaction step with one condition changed: capture not
\* gated by distance, release gated by distance, grip re-decided every tick.
Interact_NoDistance(isGripped, isGripping, near) ==
  LET captured == IF isGripping THEN TRUE ELSE isGripped
  IN  IF ~isGripping THEN FALSE ELSE captured

Interact_ReleaseNear(isGripped, isGripping, near) ==
  LET captured == IF isGripping /\ near THEN TRUE ELSE isGripped
  IN  IF ~isGripping /\ near THEN FALSE ELSE captured

Interact_Regrip(isGripped, isGripping, near) ==
  isGripping /\ near

\* The interaction step: the gripped flag after the two ifs.
Interact(isGripped, isGripping, near) ==
  LET captured == IF isGripping /\ near THEN TRUE ELSE isGripped
  IN  IF ~isGripping THEN FALSE ELSE captured

\* A variant of the snap that keeps the ball's velocity.
Snap_KeepVelocity(ball, gripperVisX, gripperVisY) ==
  [ball EXCEPT !.x = gripperVisX, !.y = gripperVisY + HANG * Scale, !.isGripped = TRUE]

\* A gripped ball hangs under the gripper, at rest.
Snap(ball, gripperVisX, gripperVisY) ==
  [ball EXCEPT !.x = gripperVisX, !.y = gripperVisY + HANG * Scale, !.vx = 0, !.vy = 0,
               !.isGripped = TRUE]

\* A variant of the free fall with a lossless bounce.
Fall_FullBounce(ball) ==
  LET vy1 == ball.vy + Scale \div 2
      vx1 == MulRound(ball.vx, 95, 100)
      y1 == ball.y + vy1
      x1 == ball.x + vx1
      floor == (BASE_Y - ball.radius) * Scale
      hit == y1 > floor
      y2 == IF hit THEN floor ELSE y1
      vy2 == IF hit THEN -vy1 ELSE vy1
      vx2 == IF hit THEN MulRound(vx1, 8, 10) ELSE vx1
      vx3 == IF x1 < 0 \/ x1 > 600 * Scale THEN -vx2 ELSE vx2
  IN  [ball EXCEPT !.x = x1, !.y = y2, !.vx = vx3, !.vy = vy2, !.isGripped = FALSE]

\* A variant of the free fall whose bounce leaves the ball where it is.
Fall_NoFloorClamp(ball) ==
  LET vy1 == ball.vy + Scale \div 2
      vx1 == MulRound(ball.vx, 95, 100)
      y1 == ball.y + vy1
      x1 == ball.x + vx1
      floor == (BASE_Y - ball.radius) * Scale
      hit == y1 > floor
      vy2 == IF hit THEN MulRound(vy1, -6, 10) ELSE vy1
      vx2 == IF hit THEN MulRound(vx1, 8, 10) ELSE vx1
      vx3 == IF x1 < 0 \/ x1 > 600 * Scale THEN -vx2 ELSE vx2
  IN  [ball EXCEPT !.x = x1, !.y = y1, !.vx = vx3, !.vy = vy2, !.isGripped = FALSE]

\* A free ball: gravity, drag, integration, floor and wall collisions.
Fall(ball) ==
  LET vy1 == ball.vy + Scale \div 2
      vx1 == MulRound(ball.vx, 95, 100)
      y1 == ball.y + vy1
      x1 == ball.x + vx1
      floor == (BASE_Y - ball.radius) * Scale
      hit == y1 > floor
      y2 == IF hit THEN floor ELSE y1
      vy2 == IF hit THEN MulRound(vy1, -6, 10) ELSE vy1
      vx2 == IF hit THEN MulRound(vx1, 8, 10) ELSE vx1
      vx3 == IF x1 < 0 \/ x1 > 600 * Scale THEN -vx2 ELSE vx2
  IN  [ball EXCEPT !.x = x1, !.y = y2, !.vx = vx3, !.vy = vy2, !.isGripped = FALSE]

UpdateBall(ball, isGripping, gripperVisX, gripperVisY) ==
  LET near == HypotLess(ball.x - gripperVisX, ball.y - gripperVisY, gripThreshold * Scale)
  IN  IF Interact(ball.isGripped, isGripping, near)
      THEN Snap(ball, gripperVisX, gripperVisY)
      ELSE Fall(ball)

\* A variant with a half-closed gripper for the fist.
GripperCommand_Proportional(gest) ==
  IF gest = PINCH THEN 100 ELSE IF gest = CLOSED_FIST THEN 50 ELSE 0

\* The gripper command of the tick.
GripperCommand(gest) == IF gest = PINCH THEN 100 ELSE 0

\* One run of updatePhysics, the setInterval callback.
Tick ==
  /\ phase = "mounted"
  /\ ticks < MaxTicks
  /\ ticks' = ticks + 1
  /\ LET newCoords == mapInputToCoordinates(inputPosRef.x, inputPosRef.y, configRef)
         isGripping == gestureRef = PINCH
         gripperVisX == BASE_X * Scale + newCoords.x
         gripperVisY == BASE_Y * Scale - newCoords.y
     IN  /\ target' = newCoords
         /\ \E rnd \in RoundingsOf(newCoords, configRef) :
              angles' = [calculateIK(newCoords, configRef, rnd)
                           EXCEPT !.gripper = GripperCommand(gestureRef)]
         /\ balls' = [i \in DOMAIN balls |->
                        UpdateBall(balls[i], isGripping, gripperVisX, gripperVisY)]
  /\ UNCHANGED << extVars, phase, appVars, refVars, visionVars, cameraVars >>

\* ------------------------------------------------------------ vision service

\* services/visionService.ts initializeVision, up to its first await: the
\* early returns queue their result; otherwise a load starts.
CallInitializeVision_NoMarkerTest ==
  IF handLandmarker THEN readyQueue' = Append(readyQueue, TRUE) /\ UNCHANGED << isLoading, loads >>
  ELSE isLoading' = TRUE /\ loads' = loads + 1 /\ UNCHANGED readyQueue

CallInitializeVision ==
  IF handLandmarker THEN readyQueue' = Append(readyQueue, TRUE) /\ UNCHANGED << isLoading, loads >>
  ELSE IF isLoading THEN readyQueue' = Append(readyQueue, FALSE) /\ UNCHANGED << isLoading, loads >>
  ELSE isLoading' = TRUE /\ loads' = loads + 1 /\ UNCHANGED readyQueue

\* The load settles: try/catch/finally of initializeVision.
LoadDone(ok) ==
  /\ loads > 0
  /\ handLandmarker' = (handLandmarker \/ ok)
  /\ isLoading' = FALSE
  /\ loads' = loads - 1
  /\ readyQueue' = Append(readyQueue, ok)
  /\ UNCHANGED << extVars, phase, appVars, simVars, refVars, cameraVars >>

\* A variant in which the call that returned last resumes first.
DeliverReady_Last ==
  /\ readyQueue # << >>
  /\ isVisionReady' = readyQueue[Len(readyQueue)]
  /\ readyQueue' = SubSeq(readyQueue, 1, Len(readyQueue) - 1)
  /\ UNCHANGED << extVars, phase, activeTab, gesture, config, view, simVars, refVars,
                  handLandmarker, isLoading, loads, cameraVars >>

\* startVision resumes after its await: setIsVisionReady(ready).
DeliverReady ==
  /\ readyQueue # << >>
  /\ isVisionReady' = Head(readyQueue)
  /\ readyQueue' = Tail(readyQueue)
  /\ UNCHANGED << extVars, phase, activeTab, gesture, config, view, simVars, refVars,
                  handLandmarker, isLoading, loads, cameraVars >>

\* ------------------------------------------------------------ camera effect

NewSession(tab, ready) ==
  [tab |-> tab, ready |-> ready, active |-> TRUE, stream |-> "null",
   request |-> IF tab = SIMULATION THEN "pending" ELSE "none"]

\* The effect's cleanup, run for the current session.
StopSession(s) ==
  [s EXCEPT !.active = FALSE,
            !.stream = IF s.stream = "live" THEN "stopped" ELSE s.stream]

CleanedUp(ss) ==
  IF ss = << >> THEN ss ELSE [ss EXCEPT ![Len(ss)] = StopSession(ss[Len(ss)])]

Cancelled(sched, ref) == sched \ {ref}

\* Cleanup of the previous run (if any), then the new run.
RunCameraEffect(tab, ready) ==
  /\ sessions' = Append(CleanedUp(sessions), NewSession(tab, ready))
  /\ scheduled' = Cancelled(scheduled, requestRef)

\* getUserMedia resolves for session s: stream = ..., and with a mounted
\* <video> srcObject and onloadeddata are set.
Grant(s) ==
  /\ s \in DOMAIN sessions
  /\ sessions[s].request = "pending"
  /\ sessions' = [sessions EXCEPT ![s].request = "granted", ![s].stream = "live"]
  /\ video' = IF video.mounted THEN [mounted |-> TRUE, src |-> s, hasData |-> FALSE] ELSE video
  /\ UNCHANGED << extVars, phase, appVars, simVars, refVars, visionVars, requestRef, newFrame,
                  scheduled, lastSeen >>

\* getUserMedia rejects for session s: the catch logs.
Deny(s) ==
  /\ s \in DOMAIN sessions
  /\ sessions[s].request = "pending"
  /\ sessions' = [sessions EXCEPT ![s].request = "denied"]
  /\ UNCHANGED << extVars, phase, appVars, simVars, refVars, visionVars, requestRef, video, newFrame,
                  scheduled, lastSeen >>

\* The <video> fires loadeddata: the handler of the session that set srcObject
\* requests the first frame callback of its loop.
LoadedData ==
  /\ video.mounted /\ video.src # 0 /\ ~video.hasData
  /\ sessions[video.src].stream = "live"
  /\ video' = [video EXCEPT !.hasData = TRUE]
  /\ requestRef' = video.src
  /\ scheduled' = scheduled \cup {video.src}
  /\ UNCHANGED << extVars, phase, appVars, simVars, refVars, visionVars, newFrame, sessions, lastSeen >>

\* The camera delivers a frame: currentTime advances.
VideoFrame ==
  /\ video.mounted /\ video.src # 0 /\ video.hasData
  /\ sessions[video.src].stream = "live"
  /\ ~newFrame
  /\ newFrame' = TRUE
  /\ UNCHANGED << extVars, phase, appVars, simVars, refVars, visionVars, requestRef, video, sessions,
                  scheduled, lastSeen >>

\* ------------------------------------------------------------ tracking loop

\* The guards of loop for the callback of session s.
Processes(s) == video.mounted /\ video.hasData /\ sessions[s].ready /\ newFrame

\* The sample the loop derives from landmark 5.
PointerOf(landmarks) == [x |-> Milli - landmarks[6].x, y |-> landmarks[6].y]

\* Whether the loop calls setGesture for the classified gesture.
Publishes(currentGesture) == currentGesture # gestureRef

\* A variant that writes the sample whatever the gesture.
WritesSample_Always(currentGesture) == TRUE

\* Whether the loop writes the pointer sample.
WritesSample(currentGesture) == currentGesture # CLOSED_FIST

\* A frame callback of session s runs and finds nothing to process.
LoopIdle(s) ==
  /\ s \in scheduled
  /\ ~Processes(s)
  /\ requestRef' = s
  /\ UNCHANGED << extVars, phase, appVars, simVars, refVars, visionVars, video, newFrame, sessions,
                  scheduled, lastSeen >>

\* A frame callback of session s runs and processes a new frame, for which
\* detectHands reports det.
LoopFrame(s, det) ==
  /\ s \in scheduled
  /\ Processes(s)
  /\ newFrame' = FALSE
  /\ IF Len(det) > 0
     THEN LET currentGesture == analyzeGesture(det)
          IN  /\ gesture' = IF Publishes(currentGesture) THEN currentGesture ELSE gesture
              /\ inputPosRef' = IF WritesSample(currentGesture) THEN PointerOf(det)
                                ELSE inputPosRef
              /\ lastSeen' = currentGesture
     ELSE UNCHANGED << gesture, inputPosRef, lastSeen >>
  /\ requestRef' = s
  /\ UNCHANGED << extVars, phase, activeTab, isVisionReady, config, view, simVars, gestureRef,
                  configRef, visionVars, video, sessions, scheduled >>

\* ------------------------------------------------------------ operator input

\* App handleMouseMove, for the position p of the mouse over the simulation.
handleMouseMove_IgnoreReady(p) ==
  /\ phase = "mounted" /\ view.activeTab = SIMULATION
  /\ inputPosRef' = IF gestureRef # CLOSED_FIST
                    THEN [x |-> Clamp01(p.x), y |-> Clamp01(p.y)]
                    ELSE inputPosRef
  /\ UNCHANGED << extVars, phase, appVars, simVars, gestureRef, configRef, visionVars, cameraVars >>

handleMouseMove(p) ==
  /\ phase = "mounted" /\ view.activeTab = SIMULATION
  /\ inputPosRef' = IF gestureRef # CLOSED_FIST /\ ~view.isVisionReady
                    THEN [x |-> Clamp01(p.x), y |-> Clamp01(p.y)]
                    ELSE inputPosRef
  /\ UNCHANGED << extVars, phase, appVars, simVars, gestureRef, configRef, visionVars, cameraVars >>

\* App handleMouseDown / handleMouseUp publish g = PINCH / OPEN_PALM.
MousePublish(g) ==
  /\ phase = "mounted" /\ view.activeTab = SIMULATION
  /\ gesture' = IF ~view.isVisionReady THEN g ELSE gesture
  /\ UNCHANGED << extVars, phase, activeTab, isVisionReady, config, view, simVars, refVars,
                  visionVars, cameraVars >>

handleMouseDown == MousePublish(PINCH)
handleMouseUp == MousePublish(OPEN_PALM)

\* ControlPanel handleChange, on the config the panel was rendered with.
handleChange(key, val) ==
  /\ phase = "mounted"
  /\ config' = [configRef EXCEPT ![key] = FieldValue(val)]
  /\ UNCHANGED << extVars, phase, activeTab, isVisionReady, gesture, view, simVars, refVars,
                  visionVars, cameraVars >>

\* A click on a tab button.
setActiveTab(tab) ==
  /\ phase = "mounted"
  /\ tab # activeTab
  /\ Len(readyQueue) < MaxPending
  /\ activeTab' = tab
  /\ UNCHANGED << extVars, phase, isVisionReady, gesture, config, view, simVars, refVars,
                  visionVars, cameraVars >>

\* ------------------------------------------------------------ serial controller

\* The hardware command of a set of joint angles: "base,shoulder,elbow,gripper",
\* as a sequence of tokens.
NumText(n) == IF n.nan THEN "NaN" ELSE ToString(n.v)
LineOf(a) ==
  << NumText(a.base), ",", NumText(a.shoulder), ",", NumText(a.elbow), ",",
     ToString(a.gripper) >>

\* What a call of connect meets: no Web Serial API, the port request rejected,
\* open rejected, a port that is not writable, or a writable open port.
ConnectOutcomes == {"unsupported", "noPort", "openFailed", "notWritable", "ok"}

\* SerialController.connect; a rejected request or open is logged.
connect(outcome) ==
  /\ outcome \in {"noPort", "openFailed"} => Len(logged) < MaxSent
  /\ port' = IF outcome \in {"unsupported", "noPort"} THEN port ELSE TRUE
  /\ writer' = IF outcome = "ok" THEN TRUE ELSE writer
  /\ logged' = IF outcome \in {"noPort", "openFailed"}
               THEN Append(logged, "Serial Connection Failed:") ELSE logged
  /\ UNCHANGED << sent, codeVars, probe, phase, appVars, simVars, refVars, visionVars, cameraVars >>

sendData_DropWriter(data, writeOk) ==
  /\ Len(sent) < MaxSent /\ Len(logged) < MaxSent
  /\ sent' = IF writer /\ writeOk THEN Append(sent, data \o << "\n" >>) ELSE sent
  /\ logged' = IF writer /\ ~writeOk THEN Append(logged, "Serial Write Error:") ELSE logged
  /\ writer' = (writer /\ writeOk)
  /\ UNCHANGED << port, codeVars, probe, phase, appVars, simVars, refVars, visionVars, cameraVars >>

\* SerialController.sendData: nothing without a writer; otherwise data and a
\* newline are written in one chunk, and a write that fails is logged by the
\* catch, which ends the call.
sendData(data, writeOk) ==
  /\ Len(sent) < MaxSent /\ Len(logged) < MaxSent
  /\ sent' = IF writer /\ writeOk THEN Append(sent, data \o << "\n" >>) ELSE sent
  /\ logged' = IF writer /\ ~writeOk THEN Append(logged, "Serial Write Error:") ELSE logged
  /\ UNCHANGED << port, writer, codeVars, probe, phase, appVars, simVars, refVars, visionVars,
                  cameraVars >>

\* SerialController.disconnect
disconnect ==
  /\ writer' = FALSE
  /\ port' = FALSE
  /\ UNCHANGED << sent, logged, codeVars, probe, phase, appVars, simVars, refVars, visionVars,
                  cameraVars >>

\* ------------------------------------------------------------ code generation

\* What the request to the text-generation service comes back with: a
\* rejection, a response without text, or a text; the text is JSON or not, and
\* the value it denotes has some of the fields of GeneratedCode.
CodeFields == {"python", "arduino", "explanation"}
Responses ==
  { [kind |-> "rejected", json |-> FALSE, fields |-> {}],
    [kind |-> "empty", json |-> FALSE, fields |-> {}],
    [kind |-> "text", json |-> FALSE, fields |-> {}] }
  \cup { [kind |-> "text", json |-> TRUE, fields |-> f] : f \in SUBSET CodeFields }
Notes == {"", "use 9g servos"}

\* JSON.parse(text): the value, or a SyntaxError.
JSONparse(resp) ==
  IF resp.json THEN [threw |-> FALSE, value |-> [fields |-> resp.fields]]
  ELSE [threw |-> TRUE, value |-> [fields |-> {}]]

\* services/geminiService.ts generateSystemCode, as its caller sees it: the
\* promise rejects when the request is rejected, the response has no text or
\* the text is not JSON; otherwise it resolves with the parsed value.
generateSystemCode(resp) ==
  IF resp.kind = "rejected" \/ resp.kind = "empty" \/ JSONparse(resp).threw
  THEN [threw |-> TRUE, value |-> [fields |-> {}]]
  ELSE [threw |-> FALSE, value |-> JSONparse(resp).value]

\* App handleGenerateCode, up to its await: the flag is set and the request
\* leaves.
handleGenerateCode(notes) ==
  /\ phase = "mounted" /\ view.activeTab = CODE_GEN
  /\ requests < MaxPending
  /\ isGenerating' = TRUE
  /\ requests' = requests + 1
  /\ UNCHANGED << generatedCode, serialVars, probe, phase, appVars, simVars, refVars,
                  visionVars, cameraVars >>

SettleRequest_ClearOnError(resp) ==
  /\ requests > 0
  /\ requests' = requests - 1
  /\ generatedCode' = IF generateSystemCode(resp).threw THEN NoCode
                      ELSE << generateSystemCode(resp).value >>
  /\ isGenerating' = FALSE
  /\ UNCHANGED << serialVars, probe, phase, appVars, simVars, refVars, visionVars, cameraVars >>

\* handleGenerateCode resumes after its await: try stores the code, catch
\* alerts, finally clears the flag.
SettleRequest(resp) ==
  /\ requests > 0
  /\ requests' = requests - 1
  /\ generatedCode' = IF generateSystemCode(resp).threw THEN generatedCode
                      ELSE << generateSystemCode(resp).value >>
  /\ isGenerating' = FALSE
  /\ UNCHANGED << serialVars, probe, phase, appVars, simVars, refVars, visionVars, cameraVars >>

\* ------------------------------------------------------------ render and effects

\* The first render and its effects: the refs are synced, the vision service
\* is started, the camera effect runs, the physics interval starts.
Mount ==
  /\ phase = "init"
  /\ phase' = "mounted"
  /\ CallInitializeVision
  /\ RunCameraEffect(activeTab, isVisionReady)
  /\ video' = NewVideo
  /\ UNCHANGED << extVars, appVars, simVars, refVars, handLandmarker, requestRef, newFrame, lastSeen >>

\* A render after state changed, and the effects whose dependencies changed.
Commit ==
  /\ phase = "mounted"
  /\ \/ config # configRef
     \/ gesture # gestureRef
     \/ activeTab # view.activeTab
     \/ isVisionReady # view.isVisionReady
  /\ configRef' = config
  /\ gestureRef' = gesture
  /\ view' = [activeTab |-> activeTab, isVisionReady |-> isVisionReady]
  /\ IF activeTab # view.activeTab /\ activeTab = SIMULATION
     THEN CallInitializeVision
     ELSE UNCHANGED << isLoading, loads, readyQueue >>
  /\ IF activeTab # view.activeTab \/ isVisionReady # view.isVisionReady
     THEN Len(sessions) < MaxSessions /\ RunCameraEffect(activeTab, isVisionReady)
     ELSE UNCHANGED << sessions, scheduled >>
  /\ video' = IF activeTab = view.activeTab THEN video
              ELSE IF activeTab = SIMULATION THEN NewVideo ELSE NoVideo
  /\ UNCHANGED << extVars, phase, activeTab, isVisionReady, gesture, config, simVars, inputPosRef,
                  handLandmarker, requestRef, newFrame, lastSeen >>

\* The component unmounts: the cleanups of the camera effect and of the
\* physics interval run.
Unmount ==
  /\ phase = "mounted"
  /\ phase' = "unmounted"
  /\ sessions' = CleanedUp(sessions)
  /\ scheduled' = Cancelled(scheduled, requestRef)
  /\ video' = NoVideo
  /\ UNCHANGED << extVars, appVars, simVars, refVars, visionVars, requestRef, newFrame, lastSeen >>

\* ------------------------------------------------------------ specification

Next ==
  \/ Mount
  \/ Commit
  \/ Unmount
  \/ Tick
  \/ \E ok \in BOOLEAN : LoadDone(ok)
  \/ DeliverReady
  \/ \E s \in 1..MaxSessions : Grant(s)
  \/ \E s \in 1..MaxSessions : Deny(s)
  \/ LoadedData
  \/ VideoFrame
  \/ \E s \in scheduled : LoopIdle(s)
  \/ \E s \in scheduled, det \in Detections : LoopFrame(s, det)
  \/ \E p \in Samples \cup {OutOfFrame} : handleMouseMove(p)
  \/ handleMouseDown
  \/ handleMouseUp
  \/ \E key \in {"segment1Length", "segment2Length"}, val \in Texts : handleChange(key, val)
  \/ \E tab \in Tab : setActiveTab(tab)
  \/ \E outcome \in ConnectOutcomes : connect(outcome)
  \/ \E writeOk \in BOOLEAN : sendData(LineOf(angles), writeOk)
  \/ disconnect
  \/ \E notes \in Notes : handleGenerateCode(notes)
  \/ \E resp \in Responses : SettleRequest(resp)

Spec == Init /\ [][Next]_vars

\* The control loop with its producers, on the simulation tab: the vision
\* service comes up (or fails), the camera is granted, the tracking loop and
\* the manual fallback publish, the control tick consumes.
NextControl ==
  \/ Mount
  \/ Commit
  \/ Tick
  \/ \E ok \in BOOLEAN : LoadDone(ok)
  \/ DeliverReady
  \/ \E s \in 1..MaxSessions : Grant(s)
  \/ LoadedData
  \/ VideoFrame
  \/ \E s \in scheduled : LoopIdle(s)
  \/ \E s \in scheduled, det \in Detections : LoopFrame(s, det)
  \/ \E p \in Samples \cup {OutOfFrame} : handleMouseMove(p)
  \/ handleMouseDown
  \/ handleMouseUp

SpecControl == Init /\ [][NextControl]_vars

\* The tracking session's life: tabs, readiness, camera requests, frame
\* callbacks, publication; no control tick and no configuration edit.
NextSession ==
  \/ Mount
  \/ Commit
  \/ Unmount
  \/ \E ok \in BOOLEAN : LoadDone(ok)
  \/ DeliverReady
  \/ \E s \in 1..MaxSessions : Grant(s)
  \/ \E s \in 1..MaxSessions : Deny(s)
  \/ LoadedData
  \/ VideoFrame
  \/ \E s \in scheduled : LoopIdle(s)
  \/ \E s \in scheduled, det \in Detections : LoopFrame(s, det)
  \/ \E p \in Samples \cup {OutOfFrame} : handleMouseMove(p)
  \/ handleMouseDown
  \/ handleMouseUp
  \/ \E tab \in Tab : setActiveTab(tab)

SpecSession == Init /\ [][NextSession]_vars

\* The configuration panel and the control tick that reads the configuration.
NextConfig ==
  \/ Mount
  \/ Commit
  \/ Tick
  \/ \E key \in {"segment1Length", "segment2Length"}, val \in Texts : handleChange(key, val)

SpecConfig == Init /\ [][NextConfig]_vars

\* The manual fallback alone: the mouse drives the pointer and the gesture
\* while the vision model is still loading, the control tick consumes them.
NextManual ==
  \/ Mount
  \/ Commit
  \/ Tick
  \/ \E p \in Samples \cup {OutOfFrame} : handleMouseMove(p)
  \/ handleMouseDown
  \/ handleMouseUp

SpecManual == Init /\ [][NextManual]_vars

\* The control tick next to the serial controller: the pointer moves, the
\* tick computes the joint angles, the controller is connected, sent to and
\* disconnected.
NextSerial ==
  \/ Mount
  \/ Tick
  \/ \E p \in Samples \cup {OutOfFrame} : handleMouseMove(p)
  \/ \E outcome \in ConnectOutcomes : connect(outcome)
  \/ \E writeOk \in BOOLEAN : sendData(LineOf(angles), writeOk)
  \/ disconnect

SpecSerial == Init /\ [][NextSerial]_vars

\* The code-generation tab: the operator switches tabs and asks for code; the
\* requests settle.
NextCodeGen ==
  \/ Mount
  \/ Commit
  \/ \E tab \in Tab : setActiveTab(tab)
  \/ \E notes \in Notes : handleGenerateCode(notes)
  \/ \E resp \in Responses : SettleRequest(resp)

SpecCodeGen == Init /\ [][NextCodeGen]_vars

\* ------------------------------------------------------------ function calls

\* The exported functions, called on inputs of bounded sets: probe holds the
\* call, then its outcome.

programVars ==
  << phase, appVars, simVars, refVars, visionVars, cameraVars, serialVars, codeVars >>

Call(fn, args) == [fn |-> fn, args |-> args, state |-> "called", result |-> << >>]

\* Landmark snapshots around the classifier's thresholds: each fingertip lies
\* just inside the fold distance of the wrist, at exactly that distance (on a
\* 3-4-5 diagonal), or far from it; the thumb tip lies just inside the pinch
\* distance of the index tip, at exactly that distance, or far from it.
FingerOffsets ==
  { [x |-> FOLD_DIST - 1, y |-> 0],
    [x |-> (3 * FOLD_DIST) \div 5, y |-> (4 * FOLD_DIST) \div 5],
    [x |-> 0, y |-> -(FOLD_DIST + 150)] }
ThumbOffsets ==
  { [x |-> PINCH_DIST - 1, y |-> 0],
    [x |-> (3 * PINCH_DIST) \div 5, y |-> (4 * PINCH_DIST) \div 5],
    [x |-> 120, y |-> 0] }

Snapshot(offs, thumb) ==
  LET wrist == [x |-> 500, y |-> 800]
      tip(i) == [x |-> wrist.x + offs[i].x, y |-> wrist.y + offs[i].y]
  IN  [i \in 1..21 |->
         CASE i - 1 = 0 -> wrist
           [] i - 1 = 4 -> [x |-> tip(8).x + thumb.x, y |-> tip(8).y + thumb.y]
           [] i - 1 \in {8, 12, 16, 20} -> tip(i - 1)
           [] OTHER -> [x |-> 500, y |-> 500]]

GestureInputs ==
  {NoHand} \cup { Snapshot(o, t) : o \in [{8, 12, 16, 20} -> FingerOffsets], t \in ThumbOffsets }

\* Normalized inputs of the mapper, inside and outside [0, 1], and the
\* configurations it is handed.
MapInputs == {-200, 0, 250, Milli \div 2, Milli, Milli + 300}
CallConfigs ==
  { DEFAULT_ARM_CONFIG,
    [segment1Length |-> 55, segment2Length |-> 5, baseRotation |-> 0],
    [segment1Length |-> 0, segment2Length |-> -5, baseRotation |-> 0] }

\* Targets of the solver (1/Scale): inside the reach, beyond it, closer than
\* the difference of the lengths, at the base, on every side of it, and one
\* off the plane; and the configurations it is handed.
IKTargets ==
  { [x |-> tx, y |-> ty, z |-> 0] :
      tx \in {-30000, -10000, 0, 2000, 10000, 27000}, ty \in {-5000, 0, 10000, 35000} }
  \cup { [x |-> 10000, y |-> 10000, z |-> 5000] }
IKConfigs ==
  CallConfigs
  \cup { [segment1Length |-> 5, segment2Length |-> 55, baseRotation |-> 0],
         [segment1Length |-> 100, segment2Length |-> 100, baseRotation |-> 0] }

Calls ==
  { Call("analyzeGesture", << lm >>) : lm \in GestureInputs }
  \cup { Call("calculateIK", << tgt, cfg >>) : tgt \in IKTargets, cfg \in IKConfigs }
  \cup { Call("mapInputToCoordinates", << nx, ny, cfg >>) :
           nx \in MapInputs, ny \in MapInputs, cfg \in CallConfigs }
  \cup { Call("generateSystemCode", << cfg, notes >>) : cfg \in CallConfigs, notes \in Notes }

InitCalls == Constructed /\ probe \in Calls

ReturnAnalyzeGesture ==
  /\ probe.fn = "analyzeGesture" /\ probe.state = "called"
  /\ probe' = [probe EXCEPT !.state = "returned", !.result = analyzeGesture(probe.args[1])]
  /\ UNCHANGED programVars

ReturnMapInputToCoordinates ==
  /\ probe.fn = "mapInputToCoordinates" /\ probe.state = "called"
  /\ probe' = [probe EXCEPT !.state = "returned",
                            !.result = mapInputToCoordinates(probe.args[1], probe.args[2],
                                                             probe.args[3])]
  /\ UNCHANGED programVars

ReturnCalculateIK ==
  /\ probe.fn = "calculateIK" /\ probe.state = "called"
  /\ \E rnd \in RoundingsOf(probe.args[1], probe.args[2]) :
       probe' = [probe EXCEPT !.state = "returned",
                              !.result = calculateIK(probe.args[1], probe.args[2], rnd)]
  /\ UNCHANGED programVars

\* services/geminiService.ts generateSystemCode, from the settling of the
\* request on: the try block returns what JSON.parse gives, cast to
\* GeneratedCode; the catch turns every throw into "Failed to generate code.".
SettleGenerateSystemCode(resp) ==
  /\ probe.fn = "generateSystemCode" /\ probe.state = "called"
  /\ probe' =
       IF generateSystemCode(resp).threw
       THEN [probe EXCEPT !.state = "thrown", !.result = [message |-> "Failed to generate code."]]
       ELSE [probe EXCEPT !.state = "returned", !.result = generateSystemCode(resp).value]
  /\ UNCHANGED programVars

NextCalls ==
  \/ ReturnAnalyzeGesture
  \/ ReturnCalculateIK
  \/ ReturnMapInputToCoordinates
  \/ \E resp \in Responses : SettleGenerateSystemCode(resp)

SpecCalls == InitCalls /\ [][NextCalls]_vars

\* ------------------------------------------------------------ claims: grip

\* The gripper position of a tick, from the target the tick computed.
GripperX(t) == BASE_X * Scale + t.x
GripperY(t) == BASE_Y * Scale - t.y

\* The ball is closer than 30 to the gripper position of target t.
Within30(ball, t) ==
  LET dx == ball.x - GripperX(t)
      dy == ball.y - GripperY(t)
      r == 30 * Scale
  IN  IF dx >= r \/ dx <= -r \/ dy >= r \/ dy <= -r THEN FALSE
      ELSE dx * dx + dy * dy < r * r

\* C1: in a control tick a ball that was free before the tick is gripped after
\* it if and only if the tick read PINCH and the ball's pre-tick distance to the
\* gripper position was strictly below 30.
C1_CaptureIffPinchAndNear ==
  [][Tick =>
       \A i \in DOMAIN balls :
         ~balls[i].isGripped =>
           (balls'[i].isGripped <=> (gestureRef = PINCH /\ Within30(balls[i], target')))]_vars

\* After a PINCH tick one ball has been captured and another, out of reach, has not.
C1_Witness ==
  /\ ticks > 0 /\ angles.gripper = 100
  /\ \E i, j \in DOMAIN balls : balls[i].isGripped /\ ~balls[j].isGripped

\* C2: after a control tick that read a gesture other than PINCH no ball is
\* gripped, whatever its distance to the gripper was.
C2_ReleaseUnconditional ==
  [][(Tick /\ gestureRef # PINCH) => \A i \in DOMAIN balls : ~balls'[i].isGripped]_vars

\* A tick that read CLOSED_FIST has just released a ball that had been carried
\* away from where it lay, with the gripper since moved 30 or more away from it.
C2_Witness ==
  /\ gestureRef = CLOSED_FIST /\ angles.gripper = 0
  /\ \E i \in DOMAIN balls :
       /\ ~balls[i].isGripped
       /\ balls[i].x # INITIAL_BALLS[i].x
       /\ ~Within30([balls[i] EXCEPT !.y = balls[i].y - Scale \div 2], target)
       /\ balls[i].vy = Scale \div 2

\* C3: a tick that read PINCH leaves every ball whose pre-tick distance to the
\* gripper was below 30 gripped, at (gripperX, gripperY + 15), with velocity (0, 0).
C3_GrippedBallSnapped ==
  [][(Tick /\ gestureRef = PINCH) =>
       \A i \in DOMAIN balls :
         Within30(balls[i], target') =>
           /\ balls'[i].isGripped
           /\ balls'[i].x = GripperX(target')
           /\ balls'[i].y = GripperY(target') + 15 * Scale
           /\ balls'[i].vx = 0
           /\ balls'[i].vy = 0]_vars

\* A ball that was falling (the initial balls start above the floor and fall
\* from the first tick on) hangs at rest 15 under the gripper.
C3_Witness ==
  /\ ticks >= 2
  /\ \E i \in DOMAIN balls :
       /\ balls[i].isGripped
       /\ balls[i].x = GripperX(target) /\ balls[i].y = GripperY(target) + 15 * Scale
       /\ balls[i].vy = 0

\* C4: a gripped ball stays gripped through every tick that reads PINCH, however
\* far the gripper has moved; only a tick that reads another gesture releases it.
C4_GripPersists ==
  [][\A i \in DOMAIN balls :
       (balls[i].isGripped /\ ~balls'[i].isGripped) => (Tick /\ gestureRef # PINCH)]_vars

\* A ball has been carried by a PINCH tick to the high sample's gripper
\* position, which is farther than 30 from where any ball can be captured.
C4_Witness ==
  \E i \in DOMAIN balls :
    /\ balls[i].isGripped
    /\ balls[i].x = MulRound(500, CANVAS_WIDTH * Scale, Milli)
    /\ balls[i].y = MulRound(250, CANVAS_HEIGHT * Scale, Milli) + 15 * Scale

\* ------------------------------------------------------------ claims: tracking

\* C5: safety lock.  From the first frame classified CLOSED_FIST and as long as
\* the classified frames stay CLOSED_FIST, no step (a frame, a mouse event, a
\* render, a tick) changes the published pointer sample, and a control tick in
\* that interval computes the target of that frozen sample.
C5_SafetyLock ==
  [][lastSeen' = CLOSED_FIST =>
       /\ inputPosRef' = inputPosRef
       /\ Tick => target' = [x |-> MulRound(Clamp01(inputPosRef.x), CANVAS_WIDTH * Scale, Milli)
                                     - BASE_X * Scale,
                             y |-> BASE_Y * Scale
                                     - MulRound(Clamp01(inputPosRef.y), CANVAS_HEIGHT * Scale, Milli),
                             z |-> 0]]_vars

\* The lock is on after the tracker had moved the pointer: the fist is the
\* rendered gesture, its frame has just been processed, and a tick has computed
\* the target of the frozen sample.
C5_Witness ==
  /\ lastSeen = CLOSED_FIST /\ gestureRef = CLOSED_FIST /\ ~newFrame
  /\ inputPosRef # [x |-> Milli \div 2, y |-> Milli \div 2]
  /\ ticks > 0 /\ angles.gripper = 0
  /\ target = mapInputToCoordinates(inputPosRef.x, inputPosRef.y, configRef)

\* C6: a processed frame in which no hand is detected publishes NONE.
C6_NoHandPublishesNone ==
  [][\A s \in scheduled : LoopFrame(s, NoHand) => gesture' = NONE]_vars

\* C7: a camera session that has been torn down holds no open camera stream
\* and has no frame callback scheduled.
C7_TeardownReleases ==
  \A s \in DOMAIN sessions :
    ~sessions[s].active => (sessions[s].stream # "live" /\ s \notin scheduled)

\* The sensor is unavailable: the current session's camera request was denied,
\* or the model load has failed (and its result has been delivered).
CameraDenied == sessions # << >> /\ sessions[Len(sessions)].request = "denied"
ModelFailed == phase # "init" /\ ~handLandmarker /\ ~isLoading /\ readyQueue = << >>

\* C8: when the sensor is unavailable the readiness flag the handlers see is
\* false, so that the manual fallback drives the arm.
C8_UnavailableMeansNotReady ==
  (CameraDenied \/ ModelFailed) => ~view.isVisionReady

\* C9: the tracking loop publishes a classified gesture only if it differs from
\* the gesture last published.
C9_EdgeTriggered ==
  [][\A s \in scheduled, det \in Hands :
       (LoopFrame(s, det) /\ Publishes(analyzeGesture(det))) => analyzeGesture(det) # gesture]_vars

\* ------------------------------------------------------------ claims: configuration

\* C10: both segment lengths of the ArmConfig are strictly positive.
C10_SegmentsPositive ==
  config.segment1Length > 0 /\ config.segment2Length > 0

\* ------------------------------------------------------------ claims: control tick

\* C13: the gripper command is binary: every control tick sets angles.gripper
\* to 100 if the gesture it read is PINCH and to 0 for every other gesture, and
\* the published gripper value is always 0 or 100.
C13_GripperBinary ==
  /\ [](angles.gripper \in {0, 100})
  /\ [][Tick => angles'.gripper = (IF gestureRef = PINCH THEN 100 ELSE 0)]_vars

\* A tick has read a PINCH that the tracking loop classified and published.
C13_Witness ==
  /\ ticks > 0 /\ gestureRef = PINCH /\ lastSeen = PINCH /\ ~newFrame
  /\ angles.gripper = 100

\* The y at which ball b rests on the floor, and the step of a free ball i
\* in a tick: vy grows by 0.5, y by the new vy; a y beyond the floor line is
\* set to it and vy to -0.6 times the new vy (to the nearest grid point).
FloorLine(b) == (BASE_Y - b.radius) * Scale
FreeStep(i) ==
  LET vy1 == balls[i].vy + Scale \div 2
      y1 == balls[i].y + vy1
  IN  IF y1 > FloorLine(balls[i])
      THEN balls'[i].y = FloorLine(balls[i]) /\ Abs(10 * balls'[i].vy + 6 * vy1) <= 5
      ELSE balls'[i].y = y1 /\ balls'[i].vy = vy1

\* C14 as stated: the step above, and every free ball that has reached the
\* floor line has y = floorY - radius and vy = -0.3 after one more tick.
C14_FloorGivesMinus03 ==
  [][Tick =>
       \A i \in DOMAIN balls :
         ~balls'[i].isGripped =>
           /\ FreeStep(i)
           /\ balls[i].y = FloorLine(balls[i]) =>
                (balls'[i].y = FloorLine(balls[i]) /\ balls'[i].vy = -((3 * Scale) \div 10))]_vars

\* C14, amended: the step above; a free ball with vy = 0 that stays above the
\* floor line has vy = 0.5 after the tick, and a ball with vy = 0 on or below
\* the floor line has y = floorY - radius and vy = -0.3 after it.
C14_FreeBallStep ==
  [][Tick =>
       \A i \in DOMAIN balls :
         ~balls'[i].isGripped =>
           /\ FreeStep(i)
           /\ (balls[i].vy = 0 /\ balls[i].y + Scale \div 2 <= FloorLine(balls[i])) =>
                balls'[i].vy = Scale \div 2
           /\ (balls[i].vy = 0 /\ balls[i].y >= FloorLine(balls[i])) =>
                (balls'[i].y = FloorLine(balls[i]) /\ balls'[i].vy = -((3 * Scale) \div 10))]_vars

\* A ball released under the floor line has been put on it with vy = -0.3,
\* while a ball that was never gripped is still falling from where it lay.
C14_Witness ==
  /\ ticks >= 2
  /\ \E i, j \in DOMAIN balls :
       /\ ~balls[i].isGripped /\ balls[i].x # INITIAL_BALLS[i].x
       /\ balls[i].y = FloorLine(balls[i]) /\ balls[i].vy = -((3 * Scale) \div 10)
       /\ ~balls[j].isGripped /\ balls[j].x = INITIAL_BALLS[j].x
       /\ balls[j].y < FloorLine(balls[j]) /\ balls[j].vy > 0

\* ------------------------------------------------------------ claims: serial transport

\* C16: while the serial controller is connected, every control tick sends
\* exactly one line to the serial sink: the tick's base, shoulder, elbow and
\* gripper separated by commas and ended by one newline.
C16_TickSendsLine ==
  [][(Tick /\ writer) => sent' = Append(sent, LineOf(angles') \o << "\n" >>)]_vars

\* ------------------------------------------------------------ claims: classifier

\* The squared distance of landmarks i and j, and the thresholds on the grid.
Dist2(lm, i, j) ==
  (lm[i + 1].x - lm[j + 1].x) * (lm[i + 1].x - lm[j + 1].x)
    + (lm[i + 1].y - lm[j + 1].y) * (lm[i + 1].y - lm[j + 1].y)
FoldLimit == (FOLD_DIST * Milli) \div 1000
PinchLimit == (PINCH_DIST * Milli) \div 1000
FoldedTips(lm) == { t \in {8, 12, 16, 20} : Dist2(lm, t, 0) < FoldLimit * FoldLimit }

\* C12: analyzeGesture returns NONE for an empty landmark set; otherwise
\* CLOSED_FIST if at least 3 of the fingertips 8, 12, 16, 20 are strictly closer
\* than 0.25 to landmark 0, whatever the thumb-index distance; otherwise PINCH if
\* landmarks 4 and 8 are strictly closer than 0.05; otherwise OPEN_PALM.
C12_Classification ==
  (probe.fn = "analyzeGesture" /\ probe.state = "returned") =>
    LET lm == probe.args[1]
    IN  probe.result =
          IF Len(lm) = 0 THEN NONE
          ELSE IF Cardinality(FoldedTips(lm)) >= 3 THEN CLOSED_FIST
          ELSE IF Dist2(lm, 4, 8) < PinchLimit * PinchLimit THEN PINCH
          ELSE OPEN_PALM

\* The fist has won over a simultaneous pinch: exactly three fingertips are
\* folded, the fourth lies at exactly 0.25, and the thumb touches the index tip.
C12_Witness ==
  /\ probe.fn = "analyzeGesture" /\ probe.state = "returned"
  /\ Len(probe.args[1]) > 0
  /\ probe.result = CLOSED_FIST
  /\ Cardinality(FoldedTips(probe.args[1])) = 3
  /\ \E t \in {8, 12, 16, 20} : Dist2(probe.args[1], t, 0) = FoldLimit * FoldLimit
  /\ Dist2(probe.args[1], 4, 8) < PinchLimit * PinchLimit

\* ------------------------------------------------------------ claims: code generation

\* C15: what generateSystemCode returns has all three text fields python,
\* arduino and explanation; any other outcome of the request makes the call fail.
C15_ReturnsAllFields ==
  (probe.fn = "generateSystemCode" /\ probe.state = "returned") =>
    CodeFields \subseteq probe.result.fields

\* ------------------------------------------------------------ claims: kinematics

\* C11: the solver's output is finite: no joint angle the control loop
\* publishes is NaN, whatever configuration the panel has passed to the loop.
C11_SolverFinite ==
  ~angles.base.nan /\ ~angles.shoulder.nan /\ ~angles.elbow.nan

\* C20 as stated: in the planar case (z = 0, every target of the control loop)
\* the base angle calculateIK returns is one constant value, the same for all
\* pointer positions: it does not change from one tick to the next.
C20_BaseConstant ==
  [][(Tick /\ ticks > 0) => angles'.base = angles.base]_vars

\* C20, amended: in the planar case the base angle depends on the side of the
\* base the target is on and on nothing else: 90 right of the base (x > 0),
\* -90 left of it (x < 0) and 0 above or below it (x = 0).
C20_BaseBySide ==
  [][Tick => /\ target'.z = 0
             /\ angles'.base = Num(IF target'.x > 0 THEN 90
                                   ELSE IF target'.x < 0 THEN -90 ELSE 0)]_vars

\* A tick has solved a target left of the base.
C20_Witness ==
  /\ ticks > 0
  /\ target.x < 0 /\ target.z = 0
  /\ angles.base = Num(-90)

\* ------------------------------------------------------------ claims: manual fallback

MouseEvent ==
  \/ handleMouseDown
  \/ handleMouseUp
  \/ \E p \in Samples \cup {OutOfFrame} : handleMouseMove(p)

\* C17: mouse input changes the pointer sample or the gesture only while the
\* readiness flag is false: then a move (simulation tab, gesture not
\* CLOSED_FIST) writes the mouse position clamped to [0,1] x [0,1], a press
\* publishes PINCH and a release publishes OPEN_PALM; while the flag is true no
\* mouse event changes the sample or the gesture.
C17_MouseFallback ==
  [][/\ (view.isVisionReady /\ MouseEvent) => UNCHANGED << inputPosRef, gesture >>
     /\ \A p \in Samples \cup {OutOfFrame} :
          (~view.isVisionReady /\ gestureRef # CLOSED_FIST /\ handleMouseMove(p))
            => /\ inputPosRef' = [x |-> Max(0, Min(Milli, p.x)), y |-> Max(0, Min(Milli, p.y))]
               /\ gesture' = gesture
     /\ (~view.isVisionReady /\ handleMouseDown) => (gesture' = PINCH /\ inputPosRef' = inputPosRef)
     /\ (~view.isVisionReady /\ handleMouseUp)
          => (gesture' = OPEN_PALM /\ inputPosRef' = inputPosRef)]_vars

\* A press was published and an out-of-frame move was written clamped, with the
\* vision service not ready.
C17_Witness ==
  /\ ~view.isVisionReady /\ ~isVisionReady
  /\ gesture = PINCH
  /\ inputPosRef = [x |-> Milli, y |-> 0]

\* ------------------------------------------------------------ claims: input mapping

Mapped == probe.fn = "mapInputToCoordinates" /\ probe.state = "returned"

\* C18 as stated: mapInputToCoordinates(0.5, 1.0, cfg) yields
\* y = BASE_Y - CANVAS_HEIGHT, and no input maps to a workspace y greater than
\* that value.
C18_NoneAboveInputOne ==
  Mapped =>
    /\ (probe.args[1] = Milli \div 2 /\ probe.args[2] = Milli)
         => probe.result.y = (BASE_Y - CANVAS_HEIGHT) * Scale
    /\ probe.result.y <= (BASE_Y - CANVAS_HEIGHT) * Scale

\* C18, amended: mapInputToCoordinates(0.5, 1.0, cfg) yields
\* y = BASE_Y - CANVAS_HEIGHT, the lowest workspace coordinate: no input maps
\* to a y smaller than that value, and input y = 0 maps to the greatest, BASE_Y.
C18_InputOneIsLowest ==
  Mapped =>
    /\ (probe.args[1] = Milli \div 2 /\ probe.args[2] = Milli)
         => probe.result.y = (BASE_Y - CANVAS_HEIGHT) * Scale
    /\ probe.result.y >= (BASE_Y - CANVAS_HEIGHT) * Scale
    /\ probe.result.y <= BASE_Y * Scale
    /\ probe.args[2] = 0 => probe.result.y = BASE_Y * Scale

\* The call (0.5, 1.0, cfg) has returned the lowest coordinate.
C18_Witness ==
  /\ Mapped
  /\ probe.args[1] = Milli \div 2 /\ probe.args[2] = Milli
  /\ probe.result.y = (BASE_Y - CANVAS_HEIGHT) * Scale
  /\ probe.result.y < 0

\* C19: for every input pair, values below 0 or above 1 included,
\* mapInputToCoordinates clamps each input to [0,1] and returns
\* x = cx * CANVAS_WIDTH - BASE_X, y = BASE_Y - cy * CANVAS_HEIGHT and z = 0 for
\* the clamped (cx, cy), to the nearest grid point; so x lies in
\* [-BASE_X, CANVAS_WIDTH - BASE_X] and y in [BASE_Y - CANVAS_HEIGHT, BASE_Y],
\* whatever the ArmConfig.
C19_ClampedMapping ==
  Mapped =>
    LET cx == Max(0, Min(Milli, probe.args[1]))
        cy == Max(0, Min(Milli, probe.args[2]))
        r == probe.result
    IN  /\ 2 * Abs((r.x + BASE_X * Scale) * Milli - cx * CANVAS_WIDTH * Scale) <= Milli
        /\ 2 * Abs((BASE_Y * Scale - r.y) * Milli - cy * CANVAS_HEIGHT * Scale) <= Milli
        /\ r.z = 0
        /\ -(BASE_X * Scale) <= r.x /\ r.x <= (CANVAS_WIDTH - BASE_X) * Scale
        /\ (BASE_Y - CANVAS_HEIGHT) * Scale <= r.y /\ r.y <= BASE_Y * Scale
        /\ \A cfg \in CallConfigs :
             mapInputToCoordinates(probe.args[1], probe.args[2], cfg) = r

\* A call with one input below 0, one above 1 and a configuration other than
\* the default has returned the corner of the canvas.
C19_Witness ==
  /\ Mapped
  /\ probe.args[1] < 0 /\ probe.args[2] > Milli
  /\ probe.args[3] # DEFAULT_ARM_CONFIG
  /\ probe.result = [x |-> -(BASE_X * Scale), y |-> (BASE_Y - CANVAS_HEIGHT) * Scale, z |-> 0]

\* ------------------------------------------------------------ claims: safety lock

\* The target lies beyond the arm's boundary: farther from the base than
\* segment1Length + segment2Length.
BeyondBoundary(tgt, cfg) ==
  HypotGreater(tgt.x, tgt.y, (cfg.segment1Length + cfg.segment2Length) * Scale)

\* C21: the system auto-locks when boundary limits are exceeded: once a tick
\* has put the target beyond the arm's boundary the arm is locked, and the
\* target no longer follows the pointer on the ticks that come after.
C21_AutoLockBeyondBoundary ==
  [][(Tick /\ ticks > 0 /\ BeyondBoundary(target, configRef)) => target' = target]_vars

\* ------------------------------------------------------------ claims: serial send

\* C22: sendData is best-effort: with a writer it writes the data followed by
\* exactly one newline; without one it does nothing; a failed write is logged,
\* not retried and not raised, and leaves the controller connected.
C22_SendBestEffort ==
  [][\A writeOk \in BOOLEAN :
       sendData(LineOf(angles), writeOk) =>
         /\ writer' = writer /\ port' = port
         /\ ~writer => (sent' = sent /\ logged' = logged)
         /\ (writer /\ writeOk)
              => /\ sent' = Append(sent, LineOf(angles) \o << "\n" >>)
                 /\ Len(SelectSeq(sent'[Len(sent')], LAMBDA c : c = "\n")) = 1
                 /\ logged' = logged
         /\ (writer /\ ~writeOk)
              => (sent' = sent /\ logged' = Append(logged, "Serial Write Error:"))]_vars

\* A write has failed and was logged, the controller is still connected, and a
\* line has been written.
C22_Witness ==
  /\ writer
  /\ Len(logged) > 0 /\ logged[Len(logged)] = "Serial Write Error:"
  /\ Len(sent) > 0 /\ sent[Len(sent)][Len(sent[Len(sent)])] = "\n"

\* ------------------------------------------------------------ claims: solver

Solved == probe.fn = "calculateIK" /\ probe.state = "returned"

PositiveLengths(cfg) == cfg.segment1Length > 0 /\ cfg.segment2Length > 0

AdjustedTarget(tgt, cfg) ==
  LET maxReach == (cfg.segment1Length + cfg.segment2Length) * Scale
      dist == Hypot(tgt.x, tgt.y)
      far == BeyondBoundary(tgt, cfg)
      ax == IF far THEN MulRound(tgt.x, maxReach, dist) ELSE tgt.x
      ay == IF far THEN MulRound(tgt.y, maxReach, dist) ELSE tgt.y
  IN  [x |-> BASE_X * Scale + ax, y |-> BASE_Y * Scale - ay]

\* A tenth of a pixel: far above the error of floating-point arithmetic and of
\* the grid, far below a pixel.
RoundTripTolerance == Scale \div 10

\* C24: forward-kinematics round trip: for positive segment lengths and every
\* target, the end-effector position rebuilt from the returned shoulder and
\* elbow angles and the segment lengths is the target, a target beyond l1 + l2
\* being first rescaled onto the circle of radius l1 + l2.
C24_RoundTrip ==
  (Solved /\ PositiveLengths(probe.args[2]))
    => LET p2 == gripperPos(probe.result, probe.args[2])
           adj == AdjustedTarget(probe.args[1], probe.args[2])
       IN  /\ Abs(p2.x - adj.x) <= RoundTripTolerance
           /\ Abs(p2.y - adj.y) <= RoundTripTolerance

\* ------------------------------------------------------------ claims: vision service

\* A step in which the vision-init effect calls initializeVision.
CallsInitializeVision ==
  \/ Mount
  \/ Commit /\ activeTab # view.activeTab /\ activeTab = SIMULATION

\* C25: initializeVision reports by a boolean: under any interleaving of
\* overlapping calls at most one model load is in flight; a call made while a
\* load is in flight returns false and starts no load; a call made after a
\* successful load returns true and starts no load; and the in-flight marker is
\* cleared after every load, successful or failed.
C25_SingleLoad ==
  /\ [](loads <= 1 /\ (isLoading <=> loads = 1))
  /\ [][CallsInitializeVision =>
          /\ handLandmarker
               => (readyQueue' = Append(readyQueue, TRUE) /\ loads' = loads)
          /\ (~handLandmarker /\ loads > 0)
               => (readyQueue' = Append(readyQueue, FALSE) /\ loads' = loads)
          /\ (~handLandmarker /\ loads = 0)
               => (readyQueue' = readyQueue /\ loads' = 1)]_vars
  /\ [][\A ok \in BOOLEAN :
          LoadDone(ok) => (~isLoading' /\ loads' = 0 /\ handLandmarker' = ok
                           /\ readyQueue' = Append(readyQueue, ok))]_vars

\* A call made while a load was in flight has returned false, the load is
\* still the only one in flight.
C25_Witness ==
  /\ loads = 1 /\ isLoading
  /\ readyQueue # << >> /\ readyQueue[Len(readyQueue)] = FALSE

\* ------------------------------------------------------------ claims: floor

\* C26: after every control tick every ball that is not gripped has
\* y <= BASE_Y - radius: a free ball never ends a tick below the floor, the
\* tick in which it is released from a gripper below the floor included.
C26_FreeBallAboveFloor ==
  [][Tick => \A i \in DOMAIN balls :
               ~balls'[i].isGripped => balls'[i].y <= (BASE_Y - balls'[i].radius) * Scale]_vars

\* A ball was let go by a gripper that is below the floor, and lies on the
\* floor line under it.
C26_Witness ==
  /\ ticks >= 2
  /\ target.y < 0
  /\ \E i \in DOMAIN balls :
       /\ ~balls[i].isGripped
       /\ balls[i].x = BASE_X * Scale + target.x
       /\ balls[i].y = (BASE_Y - balls[i].radius) * Scale

\* ------------------------------------------------------------ claims: code generation handler

\* C27: when a code-generation request fails, the stored generated code is
\* left as it was, and the isGenerating flag is false again after the request
\* has settled, whether it succeeded or failed.
C27_FailureKeepsCode ==
  [][\A resp \in Responses :
       SettleRequest(resp) =>
         /\ ~isGenerating'
         /\ generateSystemCode(resp).threw => generatedCode' = generatedCode
         /\ ~generateSystemCode(resp).threw
              => generatedCode' = << [fields |-> resp.fields] >>]_vars

\* Code with all three fields is stored from an earlier request, a later
\* request is in flight, and the flag was cleared by a request that settled.
C27_Witness ==
  /\ generatedCode = << [fields |-> CodeFields] >>
  /\ requests > 0
  /\ ~isGenerating

\* ------------------------------------------------------------ claims: ball set

\* C28: in every reachable state every ball has vx = 0 and x in [0, 600],
\* because a ball's horizontal position changes only by being snapped to the
\* gripper; so the wall-collision branch (x < 0 or x > 600) is never taken, and
\* the ball set always holds the same four ids with unchanged radius and colour.
C28_BallsStayInside ==
  /\ [](/\ Len(balls) = Len(INITIAL_BALLS)
        /\ \A i \in DOMAIN balls :
             /\ balls[i].vx = 0
             /\ 0 <= balls[i].x /\ balls[i].x <= 600 * Scale
             /\ balls[i].id = INITIAL_BALLS[i].id
             /\ balls[i].radius = INITIAL_BALLS[i].radius
             /\ balls[i].color = INITIAL_BALLS[i].color)
  /\ [][\A i \in DOMAIN balls :
          balls'[i].x # balls[i].x
            => (Tick /\ balls'[i].isGripped /\ balls'[i].x = BASE_X * Scale + target'.x)]_vars

\* A ball was carried to the right wall and let go there.
C28_Witness ==
  \E i \in DOMAIN balls :
    /\ ~balls[i].isGripped
    /\ balls[i].x = 600 * Scale
    /\ balls[i].vx = 0

\* ------------------------------------------------------------ claims: readiness

\* Every call of initializeVision has settled and its result has been set.
AllSettled == phase # "init" /\ loads = 0 /\ readyQueue = << >>

\* C29: the readiness flag is monotonic: under any interleaving of tab
\* switches and overlapping initializeVision calls, once the flag has been set
\* to true it is never set back to false; and once all pending calls have
\* settled the flag is true exactly when the hand-pose model is loaded.
C29_ReadinessMonotonic ==
  /\ [][isVisionReady => isVisionReady']_vars
  /\ [](AllSettled => (isVisionReady <=> handLandmarker))

\* After a switch to the other tab every call has settled, the model is
\* loaded and the flag is true.
C29_Witness ==
  /\ AllSettled
  /\ handLandmarker /\ isVisionReady
  /\ activeTab = CODE_GEN
  /\ Len(sessions) >= 2

====
